---- MODULE Spec2Model ----
(***************************************************************************)
(* Model of JRP_tariff_mundell_fleming.py: a Streamlit script that reads    *)
(* four sidebar widgets and evaluates a linear IS-LM model on them.         *)
(*                                                                         *)
(* The script computes in Python floats (IEEE-754 binary64, round to        *)
(* nearest, ties to even).  The model keeps that arithmetic: a float is a   *)
(* sign, a 53-bit significand and a binary exponent, and every operation    *)
(* rounds its exact result.  The significand does not fit a 32-bit integer, *)
(* so natural numbers are little-endian sequences of 15-bit limbs.          *)
(***************************************************************************)
EXTENDS Integers, Sequences, FiniteSets, TLC

----------------------------------------------------------------------------
(* Natural numbers of arbitrary size.  <<>> is 0; the last limb of a       *)
(* normalised number is not 0.                                              *)

Base == 2^15

RECURSIVE BNorm(_)
BNorm(a) ==
    IF a = <<>> THEN a
    ELSE IF a[Len(a)] = 0 THEN BNorm(SubSeq(a, 1, Len(a) - 1))
    ELSE a

RECURSIVE BFromNat(_)
BFromNat(n) == IF n = 0 THEN <<>> ELSE <<n % Base>> \o BFromNat(n \div Base)

RECURSIVE BZeros(_)
BZeros(k) == IF k = 0 THEN <<>> ELSE <<0>> \o BZeros(k - 1)

RECURSIVE BAddC(_, _, _)
BAddC(a, b, c) ==
    IF a = <<>> /\ b = <<>> THEN (IF c = 0 THEN <<>> ELSE <<c>>)
    ELSE LET x == IF a = <<>> THEN 0 ELSE Head(a)
             y == IF b = <<>> THEN 0 ELSE Head(b)
             s == x + y + c
         IN  <<s % Base>> \o BAddC(IF a = <<>> THEN a ELSE Tail(a),
                                   IF b = <<>> THEN b ELSE Tail(b),
                                   s \div Base)

BAdd(a, b) == BAddC(a, b, 0)

\* a - b for a >= b
RECURSIVE BSubC(_, _, _)
BSubC(a, b, c) ==
    IF a = <<>> THEN <<>>
    ELSE LET y == IF b = <<>> THEN 0 ELSE Head(b)
             d == Head(a) - y - c
         IN  <<d % Base>> \o BSubC(Tail(a),
                                   IF b = <<>> THEN b ELSE Tail(b),
                                   IF d < 0 THEN 1 ELSE 0)

BSub(a, b) == BNorm(BSubC(a, b, 0))

\* -1, 0, 1 as a < b, a = b, a > b (both normalised)
RECURSIVE BCmpAt(_, _, _)
BCmpAt(a, b, i) ==
    IF i = 0 THEN 0
    ELSE IF a[i] < b[i] THEN -1
    ELSE IF a[i] > b[i] THEN 1
    ELSE BCmpAt(a, b, i - 1)

BCmp(a, b) ==
    IF Len(a) < Len(b) THEN -1
    ELSE IF Len(a) > Len(b) THEN 1
    ELSE BCmpAt(a, b, Len(a))

RECURSIVE BMulLimb(_, _, _)
BMulLimb(a, d, c) ==
    IF a = <<>> THEN (IF c = 0 THEN <<>> ELSE <<c>>)
    ELSE LET p == Head(a) * d + c
         IN  <<p % Base>> \o BMulLimb(Tail(a), d, p \div Base)

RECURSIVE BMulR(_, _)
BMulR(a, b) ==
    IF a = <<>> THEN <<>>
    ELSE BAdd(BMulLimb(b, Head(a), 0), <<0>> \o BMulR(Tail(a), b))

BMul(a, b) == BNorm(BMulR(a, b))

\* a * 2^k
BShl(a, k) ==
    IF a = <<>> \/ k = 0 THEN a
    ELSE IF k % 15 = 0 THEN BZeros(k \div 15) \o a
    ELSE BZeros(k \div 15) \o BMulLimb(a, 2^(k % 15), 0)

\* a \div 2^k
BShr(a, k) ==
    LET q == k \div 15
        r == k % 15
        d == IF q >= Len(a) THEN <<>> ELSE SubSeq(a, q + 1, Len(a))
    IN  BNorm([i \in 1..Len(d) |->
                 (d[i] \div 2^r)
                 + (IF i < Len(d) THEN (d[i + 1] % 2^r) * 2^(15 - r) ELSE 0)])

\* the number of bits of a limb
LimbLen(x) ==
    IF x < 128
    THEN IF x < 8
         THEN (IF x < 1 THEN 0 ELSE IF x < 2 THEN 1 ELSE IF x < 4 THEN 2 ELSE 3)
         ELSE (IF x < 16 THEN 4 ELSE IF x < 32 THEN 5 ELSE IF x < 64 THEN 6 ELSE 7)
    ELSE IF x < 2048
         THEN (IF x < 256 THEN 8 ELSE IF x < 512 THEN 9 ELSE IF x < 1024 THEN 10
               ELSE 11)
         ELSE (IF x < 4096 THEN 12 ELSE IF x < 8192 THEN 13
               ELSE IF x < 16384 THEN 14 ELSE 15)

BBitLen(a) == IF a = <<>> THEN 0 ELSE 15 * (Len(a) - 1) + LimbLen(a[Len(a)])

\* bit i of a (bit 0 is the lowest)
BBit(a, i) ==
    IF i \div 15 >= Len(a) THEN 0 ELSE (a[i \div 15 + 1] \div 2^(i % 15)) % 2

\* a % 2^k = 0
BLowZero(a, k) ==
    /\ \A i \in 1..Len(a) : i <= k \div 15 => a[i] = 0
    /\ k \div 15 < Len(a) => a[k \div 15 + 1] % 2^(k % 15) = 0

\* The largest d < Base with b * d <= x, for x < b * Base: its three groups of
\* five bits, from the top (of the multiples that fit, the count is the largest)
BFits(b, d, x) == BCmp(BNorm(BMulLimb(b, d, 0)), x) <= 0

BDigit(x, b) ==
    LET hi  == Cardinality({h \in 1..31 : BFits(b, h * 1024, x)}) * 1024
        mid == Cardinality({h \in 1..31 : BFits(b, hi + h * 32, x)}) * 32
    IN  hi + mid + Cardinality({h \in 1..31 : BFits(b, hi + mid + h, x)})

\* <<a \div b, a % b>> for b # 0, by long division, one limb of a at a time:
\* the quotient and remainder of a \div Base give those of a
RECURSIVE BDivRec(_, _)
BDivRec(a, b) ==
    IF a = <<>> THEN <<<<>>, <<>>>>
    ELSE LET h == BDivRec(Tail(a), b)
             x == BNorm(<<Head(a)>> \o h[2])
             d == BDigit(x, b)
         IN  <<BNorm(<<d>> \o h[1]), BSub(x, BNorm(BMulLimb(b, d, 0)))>>

BDivMod(a, b) == BDivRec(a, b)

----------------------------------------------------------------------------
(* Python floats.  [s, m, e] is (-1)^s * m * 2^e, with m of exactly         *)
(* MantBits bits, or m = <<>> and e = 0 for a zero (s keeps its sign).      *)
(* Every value the script computes has a magnitude between 2^-70 and 2^7,   *)
(* far from the subnormal and overflow ranges, so the exponent is unbounded.*)

MantBits == 53

Dy(s, m, e) == [s |-> s, m |-> m, e |-> e]

\* The exact value (-1)^s * M * 2^e rounded to nearest, ties to even.
Round(s, M, e) ==
    IF M = <<>> THEN Dy(s, <<>>, 0)
    ELSE LET n == BBitLen(M)
         IN  IF n <= MantBits
             THEN Dy(s, BShl(M, MantBits - n), e - (MantBits - n))
             ELSE LET k  == n - MantBits
                      q  == BShr(M, k)
                      up == /\ BBit(M, k - 1) = 1
                            /\ (~BLowZero(M, k - 1) \/ BBit(q, 0) = 1)
                      q2 == IF up THEN BAdd(q, <<1>>) ELSE q
                  IN  IF BBitLen(q2) > MantBits
                      THEN Dy(s, BShr(q2, 1), e + k + 1)
                      ELSE Dy(s, q2, e + k)

\* The exact sum of two dyadic numbers, not rounded (m of any length).
\* An exact zero sum is +0 unless both operands are -0.
DAdd(x, y) ==
    LET e  == IF x.m = <<>> THEN y.e
              ELSE IF y.m = <<>> THEN x.e
              ELSE IF x.e < y.e THEN x.e ELSE y.e
        mx == IF x.m = <<>> THEN <<>> ELSE BShl(x.m, x.e - e)
        my == IF y.m = <<>> THEN <<>> ELSE BShl(y.m, y.e - e)
        c  == BCmp(mx, my)
    IN  IF x.s = y.s THEN Dy(x.s, BAdd(mx, my), e)
        ELSE IF c = 0 THEN Dy(0, <<>>, 0)
        ELSE IF c > 0 THEN Dy(x.s, BSub(mx, my), e)
        ELSE Dy(y.s, BSub(my, mx), e)

DNeg(x) == Dy(1 - x.s, x.m, x.e)

\* The exact product of two dyadic numbers, not rounded.
DMul(x, y) ==
    IF x.m = <<>> \/ y.m = <<>> THEN Dy((x.s + y.s) % 2, <<>>, 0)
    ELSE Dy((x.s + y.s) % 2, BMul(x.m, y.m), x.e + y.e)

\* -1, 0, 1 as x < y, x = y, x > y in value (-0 = +0)
DSign(x) == IF x.m = <<>> THEN 0 ELSE IF x.s = 1 THEN -1 ELSE 1

DCmp(x, y) == DSign(DAdd(x, DNeg(y)))

\* Python's float operators
FAdd(x, y) == LET d == DAdd(x, y) IN Round(d.s, d.m, d.e)

FSub(x, y) == FAdd(x, DNeg(y))

FMul(x, y) == LET d == DMul(x, y) IN Round(d.s, d.m, d.e)

\* x / y for y # 0: the quotient to 3 guard bits, the remainder as sticky bit
FDiv(x, y) ==
    IF x.m = <<>> THEN Dy((x.s + y.s) % 2, <<>>, 0)
    ELSE LET qr == BDivMod(BShl(x.m, MantBits + 3), y.m)
             st == IF qr[2] = <<>> THEN <<>> ELSE <<1>>
         IN  Round((x.s + y.s) % 2, BAdd(BShl(qr[1], 1), st),
                   x.e - y.e - (MantBits + 4))

FEq(x, y) == DCmp(x, y) = 0
FLt(x, y) == DCmp(x, y) < 0
FLe(x, y) == DCmp(x, y) <= 0
FGt(x, y) == DCmp(x, y) > 0

\* float(n) of a Python int n (exact for the ints the script uses)
FromInt(n) == IF n < 0 THEN Round(1, BFromNat(-n), 0) ELSE Round(0, BFromNat(n), 0)

\* The float literal num/den for den a power of ten: the double nearest to it
Lit(num, den) == FDiv(FromInt(num), FromInt(den))

\* f"{x:.1f}" for x >= 0: the tenths of x rounded to nearest, ties to even, as
\* the integer d that is printed "d \div 10 . d % 10"
RECURSIVE BToNat(_)
BToNat(a) == IF a = <<>> THEN 0 ELSE Head(a) + Base * BToNat(Tail(a))

Format1f(x) ==
    IF x.m = <<>> THEN 0
    ELSE LET M  == BMulLimb(x.m, 10, 0)
             k  == 0 - x.e
             q  == IF k <= 0 THEN BShl(M, 0 - k) ELSE BShr(M, k)
             up == /\ k > 0
                   /\ BBit(M, k - 1) = 1
                   /\ (~BLowZero(M, k - 1) \/ BBit(q, 0) = 1)
         IN  BToNat(q) + (IF up THEN 1 ELSE 0)

----------------------------------------------------------------------------
(* The sidebar (lines 17-23).                                               *)

\* st.sidebar.slider(label, 0.0, 5.0, default): a float slider moves in steps of
\* 0.01, so its values are the doubles nearest k/100 for k in 0..500.  The
\* model samples the slider at its two ends, at the script's defaults and at
\* one more stop.
SliderMin == 0
SliderMax == 500
TariffDefault == 200
AdDefault == 100
ProbeStop == 37

TariffStops == {SliderMin, TariffDefault, SliderMax, ProbeStop}
AdStops == {SliderMin, AdDefault, SliderMax, ProbeStop}

SliderValue == [k \in TariffStops \cup AdStops |-> Lit(k, 100)]

FiscalOptions ==
    <<"Neutral", "Debt Paydown (Contractionary)", "Tax Cut (Mildly Expansionary)">>
\* An option spelt unlike the key of monetary_map
MonetaryOptions_misspelt == <<"Neutral", "Eases Rates", "Tighten Rates">>
MonetaryOptions == <<"Neutral", "Eases Rates", "Tightens Rates">>

Range(q) == {q[i] : i \in 1..Len(q)}

\* What each widget returns on the first run: the slider's default, the
\* selectbox's first option.
WidgetDefaults ==
    [tariff_shock    |-> SliderValue[TariffDefault],
     ad_contraction  |-> SliderValue[AdDefault],
     fiscal_response |-> FiscalOptions[1],
     monetary_policy |-> MonetaryOptions[1]]

\* The values a user can give each widget.
WidgetChoices ==
    [tariff_shock    |-> {SliderValue[k] : k \in TariffStops},
     ad_contraction  |-> {SliderValue[k] : k \in AdStops},
     fiscal_response |-> Range(FiscalOptions),
     monetary_policy |-> Range(MonetaryOptions)]

----------------------------------------------------------------------------
(* The script's state.                                                      *)
(*   widgets  what the four sidebar widgets hold, kept by Streamlit across  *)
(*            runs of the script                                            *)
(*   ns       the script's namespace: the names bound so far and their      *)
(*            values                                                        *)
(*   pc       the block of the script that runs next                        *)

VARIABLES widgets, ns, pc

vars == <<widgets, ns, pc>>

\* name = value
Assign(n, name, value) ==
    [x \in DOMAIN n \cup {name} |-> IF x = name THEN value ELSE n[x]]

\* An exception ends the run: it is kept in the namespace under "raise" and
\* the statements after it do nothing.
Raised(n) == "raise" \in DOMAIN n

\* A statement that reads the names `reads` and binds `name` to `value`, an
\* expression over n: a name that is not bound raises NameError, and then
\* `value` is not evaluated.
Exec(n, reads, name, value) ==
    IF Raised(n) THEN n
    ELSE IF ~(reads \subseteq DOMAIN n) THEN Assign(n, "raise", "NameError")
    ELSE Assign(n, name, value)

----------------------------------------------------------------------------
(* The core model (lines 45-99): one operator per statement, from namespace *)
(* to namespace, with Python's left-to-right evaluation and its promotion of *)
(* an int operand to float.                                                  *)

k0_2 == Lit(2, 10)
k0_3 == Lit(3, 10)
k0_5 == Lit(5, 10)
k0_6 == Lit(6, 10)
k0_7 == Lit(7, 10)
k0_8 == Lit(8, 10)
kInt0 == FromInt(0)
kInt100 == FromInt(100)
k1_0 == FromInt(1)
k4_0 == FromInt(4)

\* Y0 = 100; r0 = 4.0; E0 = 1.0
Set_baseline(n) ==
    Exec(Exec(Exec(n, {}, "Y0", kInt100),
              {}, "r0", k4_0),
         {}, "E0", k1_0)

\* net_exports_boost = tariff_shock * 0.6
Set_net_exports_boost(n) ==
    Exec(n, {"tariff_shock"}, "net_exports_boost",
         FMul(n.tariff_shock, k0_6))

\* fiscal_shift = 0; if fiscal_response == ...: fiscal_shift = -1.0
\* elif fiscal_response == ...: fiscal_shift = 0.5
If_fiscal_response(n) ==
    IF Raised(n) THEN n
    ELSE IF "fiscal_response" \notin DOMAIN n THEN Assign(n, "raise", "NameError")
    ELSE IF n.fiscal_response = "Debt Paydown (Contractionary)"
    THEN Assign(n, "fiscal_shift", DNeg(k1_0))
    ELSE IF n.fiscal_response = "Tax Cut (Mildly Expansionary)"
    THEN Assign(n, "fiscal_shift", k0_5)
    ELSE n

\* The if / elif without the assignment of 0 before it
Set_fiscal_shift_noreset(n) == If_fiscal_response(n)

Set_fiscal_shift(n) ==
    If_fiscal_response(Exec(n, {}, "fiscal_shift", kInt0))

\* IS_shift = net_exports_boost - ad_contraction + fiscal_shift
Set_IS_shift(n) ==
    Exec(n, {"net_exports_boost", "ad_contraction", "fiscal_shift"}, "IS_shift",
         FAdd(FSub(n.net_exports_boost, n.ad_contraction),
                         n.fiscal_shift))

\* LM_shift = 0; if monetary_policy == "Eases Rates": LM_shift = 1.0
\* elif monetary_policy == "Tightens Rates": LM_shift = -1.0
\* The two branches with each other's shift
If_monetary_policy_swapped(n) ==
    IF Raised(n) THEN n
    ELSE IF "monetary_policy" \notin DOMAIN n THEN Assign(n, "raise", "NameError")
    ELSE IF n.monetary_policy = "Eases Rates"
    THEN Assign(n, "LM_shift", DNeg(k1_0))
    ELSE IF n.monetary_policy = "Tightens Rates" THEN Assign(n, "LM_shift", k1_0)
    ELSE n

If_monetary_policy(n) ==
    IF Raised(n) THEN n
    ELSE IF "monetary_policy" \notin DOMAIN n THEN Assign(n, "raise", "NameError")
    ELSE IF n.monetary_policy = "Eases Rates" THEN Assign(n, "LM_shift", k1_0)
    ELSE IF n.monetary_policy = "Tightens Rates"
    THEN Assign(n, "LM_shift", DNeg(k1_0))
    ELSE n

\* The if / elif without the assignment of 0 before it
Set_LM_shift_noreset(n) == If_monetary_policy(n)

Set_LM_shift(n) ==
    If_monetary_policy(Exec(n, {}, "LM_shift", kInt0))

\* The two coefficients exchanged
Set_Y_new_swapped(n) ==
    Exec(n, {"Y0", "IS_shift", "LM_shift"}, "Y_new",
         FAdd(FAdd(n.Y0, FMul(k0_5, n.IS_shift)),
                         FMul(k0_8, n.LM_shift)))

\* Y_new = Y0 + 0.8 * IS_shift + 0.5 * LM_shift
Set_Y_new(n) ==
    Exec(n, {"Y0", "IS_shift", "LM_shift"}, "Y_new",
         FAdd(FAdd(n.Y0, FMul(k0_8, n.IS_shift)),
                         FMul(k0_5, n.LM_shift)))

\* r_new = r0 - 0.3 * LM_shift + 0.2 * IS_shift
Set_r_new(n) ==
    Exec(n, {"r0", "IS_shift", "LM_shift"}, "r_new",
         FAdd(FSub(n.r0, FMul(k0_3, n.LM_shift)),
                         FMul(k0_2, n.IS_shift)))

\* The difference of the rates taken the other way round
Set_E_change_flipped(n) ==
    Exec(n, {"r0", "r_new", "net_exports_boost"}, "E_change",
         FAdd(FMul(DNeg(k0_5), FSub(n.r_new, n.r0)),
                         FMul(k0_3, n.net_exports_boost)))

\* E_change = -0.5 * (r0 - r_new) + 0.3 * net_exports_boost
Set_E_change(n) ==
    Exec(n, {"r0", "r_new", "net_exports_boost"}, "E_change",
         FAdd(FMul(DNeg(k0_5), FSub(n.r0, n.r_new)),
                         FMul(k0_3, n.net_exports_boost)))

\* E_new = E0 + E_change
Set_E_new(n) ==
    Exec(n, {"E0", "E_change"}, "E_new", FAdd(n.E0, n.E_change))

\* Lines 47-99 in order
CoreModel(n) ==
    Set_E_new(Set_E_change(Set_r_new(Set_Y_new(Set_LM_shift(Set_IS_shift(
        Set_fiscal_shift(Set_net_exports_boost(Set_baseline(n)))))))))

----------------------------------------------------------------------------
(* The narrative (lines 109-148).  A sentence is its text and, for an       *)
(* f-string, the numbers formatted into it.                                  *)

Sentence(text, args) == [text |-> text, args |-> args]

TariffTemplate ==
    "A tariff shock of {tariff_shock:.1f}% of GDP boosts net exports by {net_exports_boost:.1f}%, which tends to increase output and support the exchange rate."
AdTemplate ==
    "However, higher prices lead to an aggregate demand contraction of {ad_contraction:.1f}% of GDP, offsetting some of the initial boost."

\* description = []
Set_description(n) == Exec(n, {}, "description", <<>>)

\* tariff_text = f"..."; description.append(tariff_text)
Append_tariff_text(n) ==
    LET n0 == Exec(n, {"tariff_shock", "net_exports_boost"}, "tariff_text",
                   Sentence(TariffTemplate,
                       <<Format1f(n.tariff_shock), Format1f(n.net_exports_boost)>>))
    IN  Exec(n0, {"description", "tariff_text"}, "description",
             Append(n0.description, n0.tariff_text))

\* The sentence appended whatever ad_contraction is
Append_ad_text_always(n) ==
    LET n0 == Exec(n, {"ad_contraction"}, "ad_text",
                   Sentence(AdTemplate, <<Format1f(n.ad_contraction)>>))
    IN  Exec(n0, {"description", "ad_text"}, "description",
             Append(n0.description, n0.ad_text))

\* if ad_contraction > 0: ad_text = f"..."; description.append(ad_text)
Append_ad_text(n) ==
    IF Raised(n) THEN n
    ELSE IF "ad_contraction" \notin DOMAIN n THEN Assign(n, "raise", "NameError")
    ELSE IF FGt(n.ad_contraction, kInt0)
    THEN LET n0 == Exec(n, {"ad_contraction"}, "ad_text",
                        Sentence(AdTemplate,
                            <<Format1f(n.ad_contraction)>>))
         IN  Exec(n0, {"description", "ad_text"}, "description",
                  Append(n0.description, n0.ad_text))
    ELSE n

descriptions_map ==
    [x \in {"Debt Paydown (Contractionary)", "Tax Cut (Mildly Expansionary)",
            "Neutral"} |->
       IF x = "Debt Paydown (Contractionary)"
       THEN Sentence("The government uses tariff revenue to pay down debt, which is contractionary and further reduces output.", <<>>)
       ELSE IF x = "Tax Cut (Mildly Expansionary)"
       THEN Sentence("The government implements a mild tax cut, providing a partial offset to weaker demand.", <<>>)
       ELSE Sentence("There is no significant fiscal policy change.", <<>>)]

monetary_map ==
    [x \in {"Neutral", "Eases Rates", "Tightens Rates"} |->
       IF x = "Neutral"
       THEN Sentence("The central bank does not respond, leaving the interest rate relatively unchanged.", <<>>)
       ELSE IF x = "Eases Rates"
       THEN Sentence("The central bank eases monetary policy, lowering interest rates and stimulating output.", <<>>)
       ELSE Sentence("The central bank tightens policy, raising interest rates and reducing output.", <<>>)]

\* description.append(map[key]): a key the map does not hold raises KeyError
AppendLookup(n, map, key) ==
    IF Raised(n) THEN n
    ELSE IF ~({key, "description"} \subseteq DOMAIN n)
    THEN Assign(n, "raise", "NameError")
    ELSE IF n[key] \notin DOMAIN map THEN Assign(n, "raise", "KeyError")
    ELSE Assign(n, "description", Append(n.description, map[n[key]]))

\* description.append(descriptions_map[fiscal_response])
Append_fiscal(n) == AppendLookup(n, descriptions_map, "fiscal_response")

\* description.append(monetary_map[monetary_policy])
Append_monetary(n) == AppendLookup(n, monetary_map, "monetary_policy")

FxStrengthen == Sentence("On net, the exchange rate is expected to strengthen due to improving net exports and/or higher interest rates.", <<>>)
FxWeaken == Sentence("On net, the exchange rate is expected to weaken due to lower interest rates or weaker domestic demand.", <<>>)
FxStable == Sentence("The exchange rate is expected to remain broadly stable, as opposing forces balance out.", <<>>)

\* if E_change > 0: fx_outcome = ... elif E_change < 0: ... else: ...
\* description.append(fx_outcome)
Append_fx_outcome(n) ==
    LET n0 == Exec(n, {"E_change"}, "fx_outcome",
                   IF FGt(n.E_change, kInt0) THEN FxStrengthen
                              ELSE IF FLt(n.E_change, kInt0) THEN FxWeaken
                              ELSE FxStable)
    IN  Exec(n0, {"description", "fx_outcome"}, "description",
             Append(n0.description, n0.fx_outcome))

\* Lines 112-146 in order; line 148 writes the sentences of description,
\* joined by spaces.
NarrativeBlock(n) ==
    Append_fx_outcome(Append_monetary(Append_fiscal(Append_ad_text(
        Append_tariff_text(Set_description(n))))))

----------------------------------------------------------------------------
(* The diagram (lines 150-158).  A numpy array is a sequence of floats and  *)
(* its operators work element by element.                                    *)

\* The points of np.linspace(start, stop, num, endpoint=False)
linspace_open(start, stop, num) ==
    LET a    == FromInt(start)
        b    == FromInt(stop)
        step == FDiv(FSub(b, a), FromInt(num))
    IN  [i \in 1..num |-> FAdd(FMul(FromInt(i - 1), step), a)]

\* np.linspace(start, stop, num) of two ints: step = (stop - start) / (num - 1),
\* the points arange(0, num) * step + start, and the last point set to stop.
linspace(start, stop, num) ==
    LET a    == FromInt(start)
        b    == FromInt(stop)
        step == FDiv(FSub(b, a), FromInt(num - 1))
    IN  [i \in 1..num |->
           IF i = num THEN b ELSE FAdd(FMul(FromInt(i - 1), step), a)]

NumPoints == 100
YFrom == 95
YTo == 105

\* Y_vals = np.linspace(95, 105, 100).  The call has no variable argument:
\* its value is a constant, which TLC computes once.
Linspace_95_105_100 == linspace(YFrom, YTo, NumPoints)

Set_Y_vals(n) == Exec(n, {}, "Y_vals", Linspace_95_105_100)

\* r0 - 0.5 * (Y_vals - Y0)
IS_unshifted(r0, Yv, Y0) ==
    [i \in DOMAIN Yv |-> FSub(r0, FMul(k0_5, FSub(Yv[i], Y0)))]

\* r0 + 0.7 * (Y_vals - Y0)
LM_unshifted(r0, Yv, Y0) ==
    [i \in DOMAIN Yv |-> FAdd(r0, FMul(k0_7, FSub(Yv[i], Y0)))]

\* The two arrays at the values r0, Y_vals and Y0 have in every run of the
\* unchanged script, computed once; at any other values the operators above
\* are applied.
MemoArgs == <<k4_0, Linspace_95_105_100, kInt100>>
IS_unshifted_memo == IS_unshifted(MemoArgs[1], MemoArgs[2], MemoArgs[3])
LM_unshifted_memo == LM_unshifted(MemoArgs[1], MemoArgs[2], MemoArgs[3])

\* array + float, element by element
ArrayAdd(u, c) == [i \in DOMAIN u |-> FAdd(u[i], c)]

\* r0 - 0.5 * (Y_vals - Y0) and r0 + 0.7 * (Y_vals - Y0) on the namespace n
IS_unshifted_of(n) ==
    IF <<n.r0, n.Y_vals, n.Y0>> = MemoArgs THEN IS_unshifted_memo
    ELSE IS_unshifted(n.r0, n.Y_vals, n.Y0)

LM_unshifted_of(n) ==
    IF <<n.r0, n.Y_vals, n.Y0>> = MemoArgs THEN LM_unshifted_memo
    ELSE LM_unshifted(n.r0, n.Y_vals, n.Y0)

\* IS_curve = r0 - 0.5 * (Y_vals - Y0) + IS_shift
Set_IS_curve(n) ==
    Exec(n, {"r0", "Y_vals", "Y0", "IS_shift"}, "IS_curve",
         ArrayAdd(IS_unshifted_of(n), n.IS_shift))

\* LM_curve = r0 + 0.7 * (Y_vals - Y0) + LM_shift
Set_LM_curve(n) ==
    Exec(n, {"r0", "Y_vals", "Y0", "LM_shift"}, "LM_curve",
         ArrayAdd(LM_unshifted_of(n), n.LM_shift))

\* fig: the traces (Y_vals, IS_curve), (Y_vals, LM_curve) and the marker
\* 'Equilibrium' at x = [Y_new], y = [r_new].  The two curves are the arrays
\* themselves, so fig keeps the marker.
Set_fig(n) ==
    Exec(n, {"Y_vals", "IS_curve", "LM_curve", "Y_new", "r_new"}, "fig",
         [x |-> <<n.Y_new>>, y |-> <<n.r_new>>])

\* Lines 151-158 in order
PlotBlock(n) == Set_fig(Set_LM_curve(Set_IS_curve(Set_Y_vals(n))))

----------------------------------------------------------------------------
(* The run of the script.                                                   *)

Init ==
    /\ widgets = WidgetDefaults
    /\ ns = <<>>
    /\ pc = "sidebar"

\* Lines 20-23: each widget call returns what the widget holds.
Sidebar ==
    /\ pc = "sidebar"
    /\ ns' = Assign(Assign(Assign(Assign(ns,
                "tariff_shock", widgets.tariff_shock),
                "ad_contraction", widgets.ad_contraction),
                "fiscal_response", widgets.fiscal_response),
                "monetary_policy", widgets.monetary_policy)
    /\ pc' = "model"
    /\ UNCHANGED widgets

\* Lines 47-99
Model ==
    /\ pc = "model"
    /\ ns' = CoreModel(ns)
    /\ pc' = IF Raised(ns') THEN "error" ELSE "narrative"
    /\ UNCHANGED widgets

\* Lines 112-148
Narrative ==
    /\ pc = "narrative"
    /\ ns' = NarrativeBlock(ns)
    /\ pc' = IF Raised(ns') THEN "error" ELSE "plot"
    /\ UNCHANGED widgets

\* Lines 151-169
Plot ==
    /\ pc = "plot"
    /\ ns' = PlotBlock(ns)
    /\ pc' = IF Raised(ns') THEN "error" ELSE "done"
    /\ UNCHANGED widgets

\* The user moves one widget, or asks for a rerun: Streamlit runs the script
\* again from the top.  The script never unbinds a name, so the run starts on
\* the bindings the last run left (without its exception).
Interact ==
    /\ pc \in {"done", "error"}
    /\ \E w \in DOMAIN WidgetChoices : \E v \in WidgetChoices[w] :
          widgets' = [widgets EXCEPT ![w] = v]
    /\ ns' = [x \in DOMAIN ns \ {"raise"} |-> ns[x]]
    /\ pc' = "sidebar"

Next == Sidebar \/ Model \/ Narrative \/ Plot \/ Interact

Spec == Init /\ [][Next]_vars

----------------------------------------------------------------------------
(* The claims.  The numbers of the specification are written here as the    *)
(* floats their decimal text denotes, and its formulas with Python's         *)
(* evaluation order; nothing below uses the statements of the script.        *)

Done == pc = "done"

\* The numbers of the specification
N0 == FromInt(0)
N1 == FromInt(1)
N4 == FromInt(4)
N95 == FromInt(95)
N100 == FromInt(100)
N105 == FromInt(105)
N0_2 == Lit(2, 10)
N0_3 == Lit(3, 10)
N0_5 == Lit(5, 10)
N0_6 == Lit(6, 10)
N0_7 == Lit(7, 10)
N0_8 == Lit(8, 10)
N94_7 == Lit(947, 10)
NStep == FDiv(FromInt(10), FromInt(99))

AtDefaults ==
    /\ Done
    /\ FEq(ns.tariff_shock, FromInt(2))
    /\ FEq(ns.ad_contraction, N1)
    /\ ns.fiscal_response = "Neutral"
    /\ ns.monetary_policy = "Neutral"

Pow2(e) == Dy(0, BShl(<<1>>, MantBits - 1), e - (MantBits - 1))

\* |x - y| <= 2^e, in exact arithmetic
Within(x, y, e) ==
    LET d == DAdd(x, DNeg(y))
    IN  DCmp(Dy(0, d.m, d.e), Pow2(e)) <= 0

\* C1 as the specification states it: at the slider defaults with both
\* selectors Neutral, IS_shift = 0.2, Y_new = 100.16, r_new = 4.04 and
\* E_new = 1.34, exactly.
C1_AsStated ==
    AtDefaults =>
        /\ FEq(ns.IS_shift, N0_2)
        /\ FEq(ns.Y_new, Lit(10016, 100))
        /\ FEq(ns.r_new, Lit(404, 100))
        /\ FEq(ns.E_new, Lit(134, 100))

\* C1, amended: at the slider defaults with both selectors Neutral,
\* IS_shift is the float 0.2 - 2^-54 (printed 0.19999999999999996, the
\* rounding of 2.0 * 0.6 - 1.0), Y_new = 100.16, r_new = 4.04,
\* E_change = 0.38 and E_new = 1.38.
C1_Defaults ==
    AtDefaults =>
        /\ ns.IS_shift = FSub(N0_2, Pow2(-54))
        /\ ~FEq(ns.IS_shift, N0_2)
        /\ Within(ns.IS_shift, N0_2, -54)
        /\ FEq(ns.Y_new, Lit(10016, 100))
        /\ FEq(ns.r_new, Lit(404, 100))
        /\ FEq(ns.E_change, Lit(38, 100))
        /\ FEq(ns.E_new, Lit(138, 100))

C1_Witness == AtDefaults

\* C2: in every finished evaluation the bound values satisfy the closed-form
\* model with Y0 = 100, r0 = 4.0, E0 = 1.0:
\* net_exports_boost = 0.6 * tariff_shock,
\* IS_shift = net_exports_boost - ad_contraction + fiscal_shift,
\* Y_new = Y0 + 0.8 * IS_shift + 0.5 * LM_shift,
\* r_new = r0 - 0.3 * LM_shift + 0.2 * IS_shift,
\* E_change = -0.5 * (r0 - r_new) + 0.3 * net_exports_boost,
\* E_new = E0 + E_change.
C2_ClosedForm ==
    Done =>
        LET Y0 == N100
            r0 == N4
            E0 == N1
        IN  /\ ns.Y0 = Y0 /\ ns.r0 = r0 /\ ns.E0 = E0
            /\ ns.net_exports_boost = FMul(N0_6, ns.tariff_shock)
            /\ ns.IS_shift =
                 FAdd(FSub(ns.net_exports_boost, ns.ad_contraction),
                      ns.fiscal_shift)
            /\ ns.Y_new =
                 FAdd(FAdd(Y0, FMul(N0_8, ns.IS_shift)),
                      FMul(N0_5, ns.LM_shift))
            /\ ns.r_new =
                 FAdd(FSub(r0, FMul(N0_3, ns.LM_shift)),
                      FMul(N0_2, ns.IS_shift))
            /\ ns.E_change =
                 FAdd(FMul(DNeg(N0_5), FSub(r0, ns.r_new)),
                      FMul(N0_3, ns.net_exports_boost))
            /\ ns.E_new = FAdd(E0, ns.E_change)

\* An evaluation finished on a slider stop that is no round number, with a
\* fiscal and a monetary shift at work.
C2_Witness ==
    /\ Done
    /\ FEq(ns.tariff_shock, Lit(ProbeStop, 100))
    /\ FEq(ns.ad_contraction, Lit(SliderMax, 100))
    /\ ns.fiscal_response = "Tax Cut (Mildly Expansionary)"
    /\ ns.monetary_policy = "Eases Rates"

\* The tables of the specification
FiscalTable(fr) ==
    IF fr = "Neutral" THEN N0
    ELSE IF fr = "Debt Paydown (Contractionary)" THEN FromInt(-1)
    ELSE N0_5

MonetaryTable(mp) ==
    IF mp = "Neutral" THEN N0
    ELSE IF mp = "Eases Rates" THEN N1
    ELSE FromInt(-1)

\* C3: in every finished evaluation fiscal_shift is 0 for Neutral, -1.0 for
\* Debt Paydown and 0.5 for Tax Cut, LM_shift is 0 for Neutral, 1.0 for Eases
\* Rates and -1.0 for Tightens Rates, whatever the other selector, the sliders
\* and the evaluations before it were.
C3_ShiftTables ==
    Done =>
        /\ FEq(ns.fiscal_shift, FiscalTable(ns.fiscal_response))
        /\ FEq(ns.LM_shift, MonetaryTable(ns.monetary_policy))

\* An evaluation at tariff_shock = 0 and ad_contraction = 0 with neither
\* selector Neutral, its shifts as the tables give them.
C3_Witness ==
    /\ Done
    /\ ns.fiscal_response = "Debt Paydown (Contractionary)"
    /\ ns.monetary_policy = "Eases Rates"
    /\ FEq(ns.fiscal_shift, FromInt(-1))
    /\ FEq(ns.LM_shift, N1)
    /\ FEq(ns.tariff_shock, N0)
    /\ FEq(ns.ad_contraction, N0)

\* C5: the narrative is, in this order, the tariff sentence, the
\* aggregate-demand sentence if and only if ad_contraction > 0, the fiscal
\* sentence of the chosen fiscal_response, the monetary sentence of the chosen
\* monetary_policy, and exactly one FX sentence: 'strengthen' when
\* E_change > 0, 'weaken' when E_change < 0, 'remain broadly stable' when
\* E_change = 0.
Texts(d) == [i \in 1..Len(d) |-> d[i].text]

C5_Narrative ==
    pc \in {"plot", "done"} =>
        Texts(ns.description) =
            <<TariffTemplate>>
            \o (IF DSign(ns.ad_contraction) > 0 THEN <<AdTemplate>> ELSE <<>>)
            \o <<descriptions_map[ns.fiscal_response].text>>
            \o <<monetary_map[ns.monetary_policy].text>>
            \o <<CASE DSign(ns.E_change) > 0 -> FxStrengthen.text
                   [] DSign(ns.E_change) < 0 -> FxWeaken.text
                   [] OTHER -> FxStable.text>>

\* A narrative without the aggregate-demand sentence and with the 'stable' FX
\* sentence, written after a run whose narrative had five sentences.
C5_Witness ==
    /\ Done
    /\ DSign(ns.ad_contraction) = 0
    /\ DSign(ns.E_change) = 0
    /\ Len(ns.description) = 4
    /\ ns.description[4] = FxStable

\* The two curves of the specification at a point Y
IS_at(Y, shift) ==
    FAdd(FSub(N4, FMul(N0_5, FSub(Y, N100))), shift)

LM_at(Y, shift) ==
    FAdd(FAdd(N4, FMul(N0_7, FSub(Y, N100))), shift)

CurvesFollowFormulas ==
    /\ Len(ns.IS_curve) = Len(ns.Y_vals)
    /\ Len(ns.LM_curve) = Len(ns.Y_vals)
    /\ \A i \in 1..Len(ns.Y_vals) :
          /\ ns.IS_curve[i] = IS_at(ns.Y_vals[i], ns.IS_shift)
          /\ ns.LM_curve[i] = LM_at(ns.Y_vals[i], ns.LM_shift)

SampleEnds ==
    /\ Len(ns.Y_vals) = 100
    /\ FEq(ns.Y_vals[1], N95)
    /\ FEq(ns.Y_vals[100], N105)
    /\ \A i \in 1..99 : FLt(ns.Y_vals[i], ns.Y_vals[i + 1])

\* C6 as stated: 100 points, the first Y 95, the last 105, strictly
\* increasing, every step Y[i+1] - Y[i] equal to 10/99, and the two curve
\* values at each Y given by the formulas.
C6_AsStated ==
    Done =>
        /\ SampleEnds
        /\ \A i \in 1..99 :
              FEq(FSub(ns.Y_vals[i + 1], ns.Y_vals[i]),
                  NStep)
        /\ CurvesFollowFormulas

\* C6, amended: 100 points, the first Y 95, the last 105, strictly
\* increasing, every step within 2^-46 of 10/99 (the points are rounded
\* floats, so the steps are not all equal), and the two curve values at each Y
\* given by the formulas.
StepNear(a, b) ==
    LET d   == DAdd(DMul(DAdd(b, DNeg(a)), FromInt(99)), FromInt(-10))
    IN  DCmp(Dy(0, d.m, d.e), DMul(FromInt(99), Pow2(-46))) <= 0

C6_CurveSample ==
    Done =>
        /\ SampleEnds
        /\ \A i \in 1..99 : StepNear(ns.Y_vals[i], ns.Y_vals[i + 1])
        /\ CurvesFollowFormulas

\* A finished diagram whose two curves are both shifted, with two
\* neighbouring steps of its Y values that differ.
C6_Witness ==
    /\ Done
    /\ Len(ns.Y_vals) = 100
    /\ DSign(ns.IS_shift) < 0
    /\ DSign(ns.LM_shift) > 0
    /\ ~FEq(FSub(ns.Y_vals[3], ns.Y_vals[2]), FSub(ns.Y_vals[4], ns.Y_vals[3]))

\* C8: the marker (Y_new, r_new) lies on both curves,
\* IS_curve(Y_new) = r_new and LM_curve(Y_new) = r_new (here even allowing
\* each a rounding error of 2^-40).
C8_MarkerOnCurves ==
    Done =>
        /\ Within(IS_at(ns.fig.x[1], ns.IS_shift), ns.fig.y[1], -40)
        /\ Within(LM_at(ns.fig.x[1], ns.LM_shift), ns.fig.y[1], -40)

\* The default inputs, where the IS curve passes 0.08 above the marker and
\* the LM curve 0.072 above it.
C8_OffCurves ==
    /\ AtDefaults
    /\ ~Within(IS_at(ns.fig.x[1], ns.IS_shift), ns.fig.y[1], -4)
    /\ ~Within(LM_at(ns.fig.x[1], ns.LM_shift), ns.fig.y[1], -4)

\* The evaluation of the same inputs with one selector set to Neutral
WithNeutral(selector) == CoreModel(Assign(ns, selector, "Neutral"))

\* C9: against Neutral with the other inputs the same, Eases Rates gives a
\* lower r_new and a higher Y_new, Tightens Rates a higher r_new and a lower
\* Y_new, Debt Paydown a lower Y_new and Tax Cut a higher Y_new.
C9_Directions ==
    Done =>
        LET m == WithNeutral("monetary_policy")
            f == WithNeutral("fiscal_response")
        IN  /\ ns.monetary_policy = "Eases Rates" =>
                  FLt(ns.r_new, m.r_new) /\ FGt(ns.Y_new, m.Y_new)
            /\ ns.monetary_policy = "Tightens Rates" =>
                  FGt(ns.r_new, m.r_new) /\ FLt(ns.Y_new, m.Y_new)
            /\ ns.fiscal_response = "Debt Paydown (Contractionary)" =>
                  FLt(ns.Y_new, f.Y_new)
            /\ ns.fiscal_response = "Tax Cut (Mildly Expansionary)" =>
                  FGt(ns.Y_new, f.Y_new)

C9_Witness ==
    /\ Done
    /\ ns.monetary_policy = "Tightens Rates"
    /\ ns.fiscal_response = "Tax Cut (Mildly Expansionary)"
    /\ FLt(ns.Y_new, WithNeutral("monetary_policy").Y_new)

\* C10: 95 <= Y_new <= 105 in every finished evaluation, so that the marker
\* is drawn within the Y range of the two curves.
C10_MarkerInDomain ==
    Done =>
        /\ FLe(N95, ns.Y_new) /\ FLe(ns.Y_new, N105)
        /\ FLe(ns.Y_vals[1], ns.fig.x[1])
        /\ FLe(ns.fig.x[1], ns.Y_vals[Len(ns.Y_vals)])

\* The marker drawn left of the first sampled Y, at Y_new = 94.7.
C10_Outside ==
    /\ Done
    /\ FEq(ns.Y_new, N94_7)
    /\ FLt(ns.fig.x[1], ns.Y_vals[1])

\* What an evaluation shows: the names behind the metrics, the narrative, the
\* diagram and the table of shocks.
OutputNames ==
    {"net_exports_boost", "fiscal_shift", "IS_shift", "LM_shift", "Y_new",
     "r_new", "E_change", "E_new", "description", "Y_vals", "IS_curve",
     "LM_curve", "fig"}

\* The outputs as a function of the four inputs alone, from the formulas,
\* tables and narrative rules of the specification.
Expected(w) ==
    LET neb == FMul(w.tariff_shock, N0_6)
        fs  == FiscalTable(w.fiscal_response)
        IS  == FAdd(FSub(neb, w.ad_contraction), fs)
        LM  == MonetaryTable(w.monetary_policy)
        Y   == FAdd(FAdd(N100, FMul(N0_8, IS)), FMul(N0_5, LM))
        r   == FAdd(FSub(N4, FMul(N0_3, LM)), FMul(N0_2, IS))
        Ec  == FAdd(FMul(DNeg(N0_5), FSub(N4, r)), FMul(N0_3, neb))
    IN  [net_exports_boost |-> neb, fiscal_shift |-> fs, IS_shift |-> IS,
         LM_shift |-> LM, Y_new |-> Y, r_new |-> r, E_change |-> Ec,
         E_new |-> FAdd(N1, Ec),
         description |->
            <<Sentence(TariffTemplate,
                       <<Format1f(w.tariff_shock), Format1f(neb)>>)>>
            \o (IF DSign(w.ad_contraction) > 0
                THEN <<Sentence(AdTemplate, <<Format1f(w.ad_contraction)>>)>>
                ELSE <<>>)
            \o <<descriptions_map[w.fiscal_response],
                 monetary_map[w.monetary_policy],
                 CASE DSign(Ec) > 0 -> FxStrengthen
                   [] DSign(Ec) < 0 -> FxWeaken
                   [] OTHER -> FxStable>>,
         Y_vals |-> Linspace_95_105_100,
         IS_curve |-> [i \in 1..100 |-> IS_at(Linspace_95_105_100[i], IS)],
         LM_curve |-> [i \in 1..100 |-> LM_at(Linspace_95_105_100[i], LM)],
         fig |-> [x |-> <<Y>>, y |-> <<r>>]]

\* C4: the outputs of a finished evaluation are a function of its four inputs
\* alone, whatever evaluations ran before it and whatever they left bound; and
\* Y0, r0 and E0, once bound, are 100, 4.0 and 1.0 in every state.
C4_Memoryless ==
    /\ Done => [x \in OutputNames |-> ns[x]] = Expected(widgets)
    /\ "Y0" \in DOMAIN ns => ns.Y0 = N100
    /\ "r0" \in DOMAIN ns => ns.r0 = N4
    /\ "E0" \in DOMAIN ns => ns.E0 = N1

\* An evaluation with ad_contraction = 0 and both selectors Neutral, finished
\* on a namespace in which an earlier evaluation with ad_contraction > 0 left
\* its ad_text bound.
C4_Witness ==
    /\ Done
    /\ DSign(ns.ad_contraction) = 0
    /\ "ad_text" \in DOMAIN ns
    /\ ns.fiscal_response = "Neutral"
    /\ ns.monetary_policy = "Neutral"

\* C7: no run of the script raises: every name is bound before it is read and
\* every selector option is a key of its sentence map, so every run ends with
\* all outputs bound and a narrative of four or five sentences.
C7_NoError ==
    /\ pc # "error"
    /\ ~Raised(ns)
    /\ Done => /\ OutputNames \subseteq DOMAIN ns
               /\ Len(ns.description) \in {4, 5}

\* A run finished on the last option of each selector and the top of each
\* slider.
C7_Witness ==
    /\ Done
    /\ ns.fiscal_response = FiscalOptions[3]
    /\ ns.monetary_policy = MonetaryOptions[3]
    /\ FEq(ns.tariff_shock, FromInt(5))
    /\ FEq(ns.ad_contraction, FromInt(5))
    /\ Len(ns.description) = 5

====
